---- MODULE Spec2Model ----
(***************************************************************************)
(* The Jest test-case generation pipelines of cookbook/agents/5x_*.py:     *)
(* file discovery, reading, generation by an external agent, and storing   *)
(* the generated test under a mirrored __tests__ path.                     *)
(*                                                                         *)
(* Paths are sequences of components; a component (file or directory       *)
(* name) is a sequence of string tokens, so that "b.tsx" is <<"b",".tsx">> *)
(* and appending ".test.js" to a name is appending a token.  File text is  *)
(* a sequence of characters over Chars, " " being whitespace.              *)
(***************************************************************************)
EXTENDS Integers, Sequences, FiniteSets, TLC

VARIABLES
    fs,        \* the regular files on disk: a function from path to text
    dirs,      \* the directories on disk: a set of paths
    store,     \* the activation of the store tool (position, arguments, result)
    fs0,       \* fs when the current store call was entered
    dirs0,     \* dirs when the current store call was entered
    ncalls,    \* the number of store calls made so far
    unreadable,\* the files whose open() or read() raises (permissions, encoding)
    pc,        \* the position of the runner function
    files,     \* the file paths the scan returned, in the order it returned them
    idx,       \* the index in files of the file the loop is at
    content,   \* the value the read stage returned for files[idx]
    response,  \* the content of the response the generate stage returned
    trace,     \* the stage calls made so far, in order: [stage, file]
    status,    \* for every file index, how each of its stages ended
    out,       \* the per-file outcome lines printed so far: [file, line]
    tasks,     \* for every file index, the asyncio task made for the file
    concurrency, \* the number of file pipelines the caller wants at once
    metrics,   \* the responses recorded in the metrics of WriterAgent's model
    wf,        \* a phi Workflow object, the frame of its _run generator, its caller
    session_state \* st.session_state of one browser session of the chat app

fsVars == <<fs, dirs>>
storeVars == <<store, fs0, dirs0, ncalls>>
runVars == <<unreadable, pc, files, idx, content, response, trace, status, out,
             tasks, concurrency, metrics, wf, session_state>>
vars == <<fs, dirs, store, fs0, dirs0, ncalls,
          unreadable, pc, files, idx, content, response, trace, status, out,
          tasks, concurrency, metrics, wf, session_state>>

\* ------------------------------------------------------------------ bounds
MaxLen == 2        \* longest file text, in characters
MaxCalls == 2      \* store calls made in one behaviour of SpecStore
MaxGenLen == 1     \* longest source text and generated test of a pipeline run
MaxConcurrency == 2 \* largest number of file pipelines a caller asks for at once
MaxFiles == 3      \* most regular files in a tree that discovery is called on

\* -------------------------------------------------------------------- text
Chars == {" ", "x"}
Text == UNION {[1..k -> Chars] : k \in 0..MaxLen}

RECURSIVE lstrip(_)
lstrip(s) == IF s # <<>> /\ Head(s) = " " THEN lstrip(Tail(s)) ELSE s

RECURSIVE rstrip(_)
rstrip(s) == IF s # <<>> /\ s[Len(s)] = " " THEN rstrip(SubSeq(s, 1, Len(s) - 1)) ELSE s

\* str.strip()
strip(s) == rstrip(lstrip(s))

Prefixes(s) == {SubSeq(s, 1, k) : k \in 0..Len(s)}

\* ------------------------------------------------------------------- paths
PARDIR == <<"..">>
CURDIR == <<".">>
TESTS_DIR == <<"__tests__">>

\* os.path.normpath on an absolute path: "." dropped, ".." removes its parent
RECURSIVE normrec(_, _)
normrec(done, rest) ==
    IF rest = <<>> THEN done
    ELSE IF Head(rest) = CURDIR THEN normrec(done, Tail(rest))
    ELSE IF Head(rest) = PARDIR
        THEN normrec(IF done = <<>> THEN done ELSE SubSeq(done, 1, Len(done) - 1), Tail(rest))
    ELSE normrec(Append(done, Head(rest)), Tail(rest))

normpath(p) == normrec(<<>>, p)

\* length of the longest common prefix of two component lists
RECURSIVE commonlen(_, _)
commonlen(a, b) ==
    IF a = <<>> \/ b = <<>> \/ Head(a) # Head(b) THEN 0
    ELSE 1 + commonlen(Tail(a), Tail(b))

\* os.path.relpath(path, start)
relpath(path, start) ==
    LET s == normpath(start)
        p == normpath(path)
        i == commonlen(s, p)
        rel == [k \in 1..(Len(s) - i) |-> PARDIR] \o SubSeq(p, i + 1, Len(p))
    IN IF rel = <<>> THEN <<CURDIR>> ELSE rel

\* os.path.dirname
dirname(p) == SubSeq(p, 1, Len(p) - 1)

\* string concatenation path + suffix: the suffix lands on the last component
addsuffix(p, suffix) == [p EXCEPT ![Len(p)] = @ \o <<suffix>>]

\* os.path.splitext on the last component: the extension is the last dotted
\* token, unless the name has no dot after its first token
splitext(p) ==
    LET name == p[Len(p)]
    IN IF Len(name) > 1
       THEN <<[p EXCEPT ![Len(p)] = SubSeq(name, 1, Len(name) - 1)], <<name[Len(name)]>>>>
       ELSE <<p, <<>>>>

\* the directories between the root and the file are forgotten: only the file's
\* name is joined to the mirror directory
test_file_path_flat(app_path, file_path) ==
    app_path \o <<TESTS_DIR>> \o <<file_path[Len(file_path)]>>

\* os.path.join(app_path, "__tests__", relative_path)
test_file_path(app_path, file_path) ==
    app_path \o <<TESTS_DIR>> \o relpath(file_path, app_path)

\* the path opened by store_jest_test_case_of_file: test_file_path + ".test.js"
final_test_path(app_path, file_path) ==
    addsuffix(test_file_path(app_path, file_path), ".test.js")

\* the extension is not put back after .test
replaced_test_path_noext(app_path, file_path) ==
    LET se == splitext(test_file_path(app_path, file_path))
    IN [se[1] EXCEPT ![Len(se[1])] = @ \o <<".test">>]

\* the path opened by store_jest_test_case: base + ".test" + ext
replaced_test_path(app_path, file_path) ==
    LET se == splitext(test_file_path(app_path, file_path))
    IN [se[1] EXCEPT ![Len(se[1])] = @ \o <<".test">> \o se[2]]

\* ------------------------------------------------------------ the file system
\* every directory on the way to p, the path itself included
Ancestors(p) == {normpath(SubSeq(p, 1, k)) : k \in 1..Len(p)}

\* os.makedirs(d, exist_ok=True) raises when a regular file is in the way
makedirs_blocked(disk, d) == \E a \in Ancestors(d) : a \in DOMAIN disk

\* os.makedirs(d, exist_ok=True): every missing directory on the way is made
makedirs(ds, d) == ds \cup Ancestors(d)

\* open(p, "a"): the file is created when missing and otherwise left as it is
open_a(disk, p) == IF p \in DOMAIN disk THEN disk ELSE (p :> <<>>) @@ disk

\* open(p, "w"): the file is created, or truncated when it exists
open_w(disk, p) == (p :> <<>>) @@ disk

\* f.write(text) at the end of the open file, and the close that flushes it
write_all(disk, p, text) == (p :> (disk[p] \o text)) @@ disk

\* ------------------------------------------------------------ the store tool
AppRoot == <<<<"app">>>>

\* the functions that store a generated test
StoreFns == {"of_file_51", "of_file_54", "test_case_51"}

\* 54/56/57 return early on blank test code; 51/52/53 have no such test
guarded(fn) == fn = "of_file_54"

\* the file a store function opens for writing
target_of(fn, app_path, file_path) ==
    normpath(IF fn = "test_case_51"
             THEN replaced_test_path(app_path, file_path)
             ELSE final_test_path(app_path, file_path))

Idle == [pc |-> "idle", fn |-> "none", app_path |-> <<>>, file_path |-> <<>>,
         test_code |-> <<>>, target |-> <<>>, result |-> "none"]

\* the call itself: the arguments are bound and the body is entered
Invoke(fn, app_path, file_path, test_code) ==
    /\ store' = [pc |-> "enter", fn |-> fn, app_path |-> app_path,
                 file_path |-> file_path, test_code |-> test_code,
                 target |-> <<>>, result |-> "none"]
    /\ fs0' = fs
    /\ dirs0' = dirs
    /\ ncalls' = ncalls + 1

\* `if not test_code.strip(): ... return`, where the function has it
StoreEnter ==
    /\ store.pc = "enter"
    /\ IF guarded(store.fn) /\ strip(store.test_code) = <<>>
       THEN store' = [store EXCEPT !.pc = "returned", !.result = "skipped"]
       ELSE store' = [store EXCEPT !.pc = "makedirs"]
    /\ UNCHANGED <<fs, dirs, fs0, dirs0, ncalls>>
    /\ UNCHANGED runVars

\* os.makedirs(os.path.dirname(test_file_path), exist_ok=True)
StoreMakedirs ==
    /\ store.pc = "makedirs"
    /\ LET d == dirname(test_file_path(store.app_path, store.file_path))
       IN \E fault \in BOOLEAN :
            IF fault \/ makedirs_blocked(fs, d)
            THEN /\ store' = [store EXCEPT !.pc = "raised", !.result = "io_error"]
                 /\ UNCHANGED dirs
            ELSE /\ dirs' = makedirs(dirs, d)
                 /\ store' = [store EXCEPT !.pc = "open"]
    /\ UNCHANGED <<fs, fs0, dirs0, ncalls>>
    /\ UNCHANGED runVars

\* open(<target>, "w")
StoreOpen ==
    /\ store.pc = "open"
    /\ LET t == target_of(store.fn, store.app_path, store.file_path)
       IN \E fault \in BOOLEAN :
            IF fault \/ t \in dirs
            THEN /\ store' = [store EXCEPT !.pc = "raised", !.result = "io_error"]
                 /\ UNCHANGED fs
            ELSE /\ fs' = open_w(fs, t)
                 /\ store' = [store EXCEPT !.pc = "write", !.target = t]
    /\ UNCHANGED <<dirs, fs0, dirs0, ncalls>>
    /\ UNCHANGED runVars

\* f.write(test_code), then the end of the with block closes the file; a write
\* that fails has put some proper prefix of the text on disk
StoreWrite ==
    /\ store.pc = "write"
    /\ \/ /\ fs' = write_all(fs, store.target, store.test_code)
          /\ store' = [store EXCEPT !.pc = "returned", !.result = "written"]
       \/ \E part \in Prefixes(store.test_code) \ {store.test_code} :
            /\ fs' = write_all(fs, store.target, part)
            /\ store' = [store EXCEPT !.pc = "raised", !.result = "io_error"]
    /\ UNCHANGED <<dirs, fs0, dirs0, ncalls>>
    /\ UNCHANGED runVars

\* no Workflow object has been made, no browser session has begun
NoWorkflow == [pc |-> "none"]

NoSession == [keys |-> {}]

\* the run variables of a behaviour in which no runner function is running
NoStatus == [read |-> "none", generate |-> "none", store |-> "none"]

NoRun ==
    /\ unreadable = {}
    /\ pc = "tool"
    /\ files = <<>>
    /\ idx = 0
    /\ content = <<>>
    /\ response = [kind |-> "none"]
    /\ trace = <<>>
    /\ status = <<>>
    /\ out = <<>>
    /\ tasks = <<>>
    /\ concurrency = 1
    /\ metrics = 0
    /\ wf = NoWorkflow
    /\ session_state = NoSession

\* ------------------------------------------- the store tool called on its own
\* the source files of the project, at several depths, and one file outside the
\* project root
SourceFiles == {
    <<<<"app">>, <<"b", ".tsx">>>>,
    <<<<"app">>, <<"ui">>, <<"nav">>, <<"page", ".tsx">>>>,
    <<<<"lib">>, <<"b", ".tsx">>>> }

SourceText == <<"x">>

InitStore ==
    /\ fs = [p \in SourceFiles |-> SourceText]
    /\ dirs = UNION {Ancestors(dirname(p)) : p \in SourceFiles}
    /\ store = Idle
    /\ fs0 = fs
    /\ dirs0 = dirs
    /\ ncalls = 0
    /\ NoRun

\* an agent calls the tool with arguments of its choosing
StoreCall ==
    /\ store.pc \in {"idle", "returned", "raised"}
    /\ ncalls < MaxCalls
    /\ \E fn \in StoreFns, file_path \in SourceFiles, test_code \in Text :
         /\ store.fn \in {"none", fn}
         /\ Invoke(fn, AppRoot, file_path, test_code)
    /\ UNCHANGED <<fs, dirs>>
    /\ UNCHANGED runVars

NextStore == StoreCall \/ StoreEnter \/ StoreMakedirs \/ StoreOpen \/ StoreWrite

SpecStore == InitStore /\ [][NextStore]_vars

\* --------------------------------------------------------------- discovery
\* name tokens inside which the text "node_modules" occurs
NodeModulesTokens == {"node_modules"}

\* the test looks only at the directory's own name, not at the path that leads
\* to it
in_node_modules_basename(root) ==
    root # <<>> /\ \E j \in 1..Len(root[Len(root)]) : root[Len(root)][j] \in NodeModulesTokens

\* `"node_modules" in root`: a substring test on the directory's path; the text
\* has no separator in it, so it occurs inside one component
in_node_modules(root) ==
    \E k \in 1..Len(root) : \E j \in 1..Len(root[k]) : root[k][j] \in NodeModulesTokens

\* file.endswith(".tsx")
endswith_tsx(name) == name[Len(name)] = ".tsx"

IsPrefix(a, b) == Len(a) <= Len(b) /\ SubSeq(b, 1, Len(a)) = a

\* the exclusion is tested again for every file, on the path of the file
tsx_files_per_file(disk, ds, app_path) ==
    IF app_path \notin ds THEN {}
    ELSE {p \in DOMAIN disk :
            /\ IsPrefix(app_path, dirname(p))
            /\ ~in_node_modules(p)
            /\ endswith_tsx(p[Len(p)])}

\* the files get_nextjs_file_paths appends: those os.walk(app_path) reaches in
\* a directory it does not skip, whose name ends with .tsx
tsx_files(disk, ds, app_path) ==
    IF app_path \notin ds THEN {}
    ELSE {p \in DOMAIN disk :
            /\ IsPrefix(app_path, dirname(p))
            /\ ~in_node_modules(dirname(p))
            /\ endswith_tsx(p[Len(p)])}

Injective(q) == \A i, j \in DOMAIN q : q[i] = q[j] => i = j

\* the orders os.walk can produce: top-down, every directory's subtree in one
\* piece, sibling directories and the files of a directory in any order
walk_orders(S) ==
    {q \in [1..Cardinality(S) -> S] :
        /\ Injective(q)
        /\ \A i, j \in DOMAIN q :
             (i < j /\ dirname(q[i]) # dirname(q[j])) => ~IsPrefix(dirname(q[j]), dirname(q[i]))
        /\ \A i, j, k \in DOMAIN q :
             (i < j /\ j < k) =>
                \A n \in 1..Len(dirname(q[i])) :
                    LET d == SubSeq(dirname(q[i]), 1, n)
                    IN IsPrefix(d, q[k]) => IsPrefix(d, q[j])}

\* the project the runner functions are run on
PageFile == <<<<"app">>, <<"ui">>, <<"page", ".tsx">>>>
ComponentFile == <<<<"app">>, <<"b", ".tsx">>>>
ModuleFile == <<<<"app">>, <<"node_modules">>, <<"m", ".tsx">>>>
NotesFile == <<<<"app">>, <<"ui">>, <<"r", ".md">>>>
ProjectFiles == {PageFile, ComponentFile, ModuleFile, NotesFile}

GenText == {t \in Text : Len(t) <= MaxGenLen}

\* ------------------------------------------------------------ the read tool
\* the text get_file_code returns for a file that is empty after strip()
EMPTY_MARKER == <<"[ERROR] File is empty.">>

\* get_file_code of 54/56/57: "" for a missing path, the stripped text or the
\* marker for a file that can be read; open() or read() raising is not caught
get_file_code(disk, noread, p) ==
    IF p \notin DOMAIN disk THEN [raised |-> FALSE, value |-> <<>>]
    ELSE IF p \in noread THEN [raised |-> TRUE, value |-> <<>>]
    ELSE [raised |-> FALSE,
          value |-> IF strip(disk[p]) # <<>> THEN strip(disk[p]) ELSE EMPTY_MARKER]

\* get_file_code of 51/52/53: open() of a missing or unreadable file raises,
\* nothing is tested before it and the text is returned as read
get_file_code_51(disk, noread, p) ==
    IF p \notin DOMAIN disk \/ p \in noread THEN [raised |-> TRUE, value |-> <<>>]
    ELSE [raised |-> FALSE, value |-> disk[p]]

\* what a returned text says about the read: the only status the caller gets
read_status(value) ==
    IF value = <<>> THEN "not_found"
    ELSE IF value = EMPTY_MARKER THEN "empty"
    ELSE "ok"

\* ----------------------------------------------- the runner of 57_testcase.py
\* _create_agent_message: self.metrics["response_times"].append(...) on the one
\* model object of an agent, counted here by the length of that list
record_response(m) == m + 1

Called(stage, i) == Append(trace, [stage |-> stage, file |-> i])

\* the project on disk before a run: the two sources hold any short text and
\* any of them may be unreadable
InitProject ==
    /\ \E tp \in GenText, tc \in GenText :
         fs = [p \in ProjectFiles |->
                 IF p = PageFile THEN tp ELSE IF p = ComponentFile THEN tc ELSE <<"x">>]
    /\ dirs = UNION {Ancestors(dirname(p)) : p \in ProjectFiles}
    /\ unreadable \in SUBSET {PageFile, ComponentFile}
    /\ store = Idle
    /\ fs0 = fs
    /\ dirs0 = dirs
    /\ ncalls = 0
    /\ pc = "scan"
    /\ files = <<>>
    /\ idx = 0
    /\ content = <<>>
    /\ response = [kind |-> "none"]
    /\ trace = <<>>
    /\ status = <<>>
    /\ out = <<>>
    /\ tasks = <<>>
    /\ metrics = 0
    /\ wf = NoWorkflow
    /\ session_state = NoSession

\* a run of a sequential runner: one file pipeline at a time
InitSequential == InitProject /\ concurrency = 1

\* the loop goes on to the next file, or the function returns
NextFile ==
    IF idx < Len(files) THEN idx' = idx + 1 /\ pc' = "read"
    ELSE idx' = idx /\ pc' = "done"

\* file_paths = get_nextjs_file_paths(app_path)
DirectScan ==
    /\ pc = "scan"
    /\ \E q \in walk_orders(tsx_files(fs, dirs, AppRoot)) :
         /\ files' = q
         /\ status' = [i \in 1..Len(q) |-> NoStatus]
         /\ IF q = <<>> THEN idx' = 0 /\ pc' = "done" ELSE idx' = 1 /\ pc' = "read"
    /\ UNCHANGED <<fs, dirs, unreadable, content, response, trace, out>>
    /\ UNCHANGED storeVars
    /\ UNCHANGED <<tasks, concurrency>>
    /\ UNCHANGED <<metrics, wf, session_state>>

\* the environment removes a discovered file before it is read
FileVanishes ==
    /\ pc = "read"
    /\ files[idx] \in DOMAIN fs
    /\ fs' = [p \in DOMAIN fs \ {files[idx]} |-> fs[p]]
    /\ UNCHANGED <<dirs, unreadable, pc, files, idx, content, response, trace, status, out>>
    /\ UNCHANGED storeVars
    /\ UNCHANGED <<tasks, concurrency>>
    /\ UNCHANGED <<metrics, wf, session_state>>

\* content = get_file_code(file_path)
DirectRead ==
    /\ pc = "read"
    /\ trace' = Called("read", idx)
    /\ LET r == get_file_code(fs, unreadable, files[idx])
       IN IF r.raised
          THEN /\ status' = [status EXCEPT ![idx].read = "raised"]
               /\ pc' = "aborted"
               /\ UNCHANGED content
          ELSE /\ status' = [status EXCEPT ![idx].read = read_status(r.value)]
               /\ pc' = "generate"
               /\ content' = r.value
    /\ UNCHANGED <<fs, dirs, unreadable, files, idx, response, out>>
    /\ UNCHANGED storeVars
    /\ UNCHANGED <<tasks, concurrency>>
    /\ UNCHANGED <<metrics, wf, session_state>>

\* response = writer_agent.run(content): the external agent raises, or returns
\* content that is no JestTestCase, or a JestTestCase with fields of its choosing
DirectGenerate ==
    /\ pc = "generate"
    /\ trace' = Called("generate", idx)
    /\ \/ /\ status' = [status EXCEPT ![idx].generate = "raised"]
          /\ pc' = "aborted"
          /\ UNCHANGED <<response, metrics>>
       \/ /\ status' = [status EXCEPT ![idx].generate = "failed"]
          /\ pc' = "store"
          /\ response' = [kind |-> "other"]
          /\ metrics' = record_response(metrics)
       \/ \E fp \in {files[i] : i \in DOMAIN files}, code \in GenText :
            /\ status' = [status EXCEPT ![idx].generate =
                              IF strip(code) = <<>> THEN "empty" ELSE "ok"]
            /\ pc' = "store"
            /\ metrics' = record_response(metrics)
            /\ response' = [kind |-> "JestTestCase", app_path |-> AppRoot,
                            file_path |-> fp, test_code |-> code]
    /\ UNCHANGED <<fs, dirs, unreadable, files, idx, content, out>>
    /\ UNCHANGED storeVars
    /\ UNCHANGED <<tasks, concurrency>>
    /\ UNCHANGED <<wf, session_state>>

\* store_jest_test_case_of_file(response.content): reading .app_path of content
\* that is no JestTestCase raises AttributeError
DirectStore ==
    /\ pc = "store"
    /\ trace' = Called("store", idx)
    /\ IF response.kind = "JestTestCase"
       THEN /\ Invoke("of_file_54", response.app_path, response.file_path, response.test_code)
            /\ pc' = "storing"
            /\ UNCHANGED status
       ELSE /\ status' = [status EXCEPT ![idx].store = "raised"]
            /\ pc' = "aborted"
            /\ UNCHANGED storeVars
    /\ UNCHANGED <<fs, dirs, unreadable, files, idx, content, response, out>>
    /\ UNCHANGED <<tasks, concurrency>>
    /\ UNCHANGED <<metrics, wf, session_state>>

\* the store call is over: its exception ends the run, its return is followed
\* by print("[DEBUG] Test case stored for ...") and the next file
DirectStored ==
    /\ pc = "storing"
    /\ store.pc \in {"returned", "raised"}
    /\ IF store.pc = "raised"
       THEN /\ status' = [status EXCEPT ![idx].store = "raised"]
            /\ pc' = "aborted"
            /\ UNCHANGED <<idx, out>>
       ELSE /\ status' = [status EXCEPT ![idx].store = store.result]
            /\ out' = Append(out, [file |-> idx, line |-> "stored"])
            /\ NextFile
    /\ UNCHANGED <<fs, dirs, unreadable, files, content, response, trace>>
    /\ UNCHANGED storeVars
    /\ UNCHANGED <<tasks, concurrency>>
    /\ UNCHANGED <<metrics, wf, session_state>>

NextDirect ==
    \/ DirectScan \/ FileVanishes \/ DirectRead \/ DirectGenerate \/ DirectStore
    \/ StoreEnter \/ StoreMakedirs \/ StoreOpen \/ StoreWrite
    \/ DirectStored

SpecDirect == InitSequential /\ [][NextDirect]_vars

\* ------------------------- TestCaseWorkflow.run of 53_testcase_generator_agent.py
\* the name only has to end with page.tsx
is_page_suffix(p) ==
    LET name == p[Len(p)]
    IN Len(name) >= 2 /\ SubSeq(name, Len(name) - 1, Len(name)) = <<"page", ".tsx">>

\* `file == "page.tsx"`
is_page(p) == p[Len(p)] = <<"page", ".tsx">>

is_component(p) == ~is_page(p)

\* nextjs_file_paths.pages + nextjs_file_paths.components
all_paths(q) == SelectSeq(q, is_page) \o SelectSeq(q, is_component)

\* the check made on read_response is forgotten
read_unchecked(r) == FALSE

\* `not read_response or not isinstance(read_response.content, FileCode)`
read_failed(r) == r.kind # "FileCode"

\* `not generate_response or not isinstance(generate_response.content, TestCode)`
generate_failed(r) == r.kind # "TestCode"

Printed(i, line) == Append(out, [file |-> i, line |-> line])

\* scan_response = self.scan_agent.run(...): the agent raises, or returns no
\* NextJsFilePaths (run prints and returns), or returns what its tool found
WfScan ==
    /\ pc = "scan"
    /\ \/ /\ pc' = "aborted"
          /\ UNCHANGED <<files, status, idx>>
       \/ /\ pc' = "done"
          /\ UNCHANGED <<files, status, idx>>
       \/ \E q \in walk_orders(tsx_files(fs, dirs, AppRoot)) :
            /\ files' = all_paths(q)
            /\ status' = [i \in 1..Len(q) |-> NoStatus]
            /\ IF q = <<>> THEN idx' = 0 /\ pc' = "done" ELSE idx' = 1 /\ pc' = "read"
    /\ UNCHANGED <<fs, dirs, unreadable, content, response, trace, out>>
    /\ UNCHANGED storeVars
    /\ UNCHANGED <<tasks, concurrency>>
    /\ UNCHANGED <<metrics, wf, session_state>>

\* the responses read_agent.run can return for a file: a FileCode with the text
\* its tool read (open() raises for a missing or unreadable file), content that
\* is no FileCode, or nothing
read_responses(disk, noread, p) ==
    {[kind |-> "none", code |-> <<>>], [kind |-> "other", code |-> <<>>]}
    \cup (IF p \in DOMAIN disk /\ p \notin noread
          THEN {[kind |-> "FileCode", code |-> disk[p]]} ELSE {})

\* read_response = self.read_agent.run(...), and the test that follows it
WfRead ==
    /\ pc = "read"
    /\ trace' = Called("read", idx)
    /\ \/ /\ status' = [status EXCEPT ![idx].read = "raised"]
          /\ pc' = "aborted"
          /\ UNCHANGED <<idx, content, out>>
       \/ \E r \in read_responses(fs, unreadable, files[idx]) :
            /\ status' = [status EXCEPT ![idx].read =
                              IF r.kind = "FileCode" THEN "ok" ELSE "failed"]
            /\ IF read_failed(r)
               THEN /\ out' = Printed(idx, "Failed to read file")
                    /\ NextFile
                    /\ UNCHANGED content
               ELSE /\ content' = r.code
                    /\ pc' = "generate"
                    /\ UNCHANGED <<idx, out>>
    /\ UNCHANGED <<fs, dirs, unreadable, files, response>>
    /\ UNCHANGED storeVars
    /\ UNCHANGED <<tasks, concurrency>>
    /\ UNCHANGED <<metrics, wf, session_state>>

\* generate_response = self.generate_test_agent.run(...), and its test
WfGenerate ==
    /\ pc = "generate"
    /\ trace' = Called("generate", idx)
    /\ \/ /\ status' = [status EXCEPT ![idx].generate = "raised"]
          /\ pc' = "aborted"
          /\ UNCHANGED <<idx, response, out, metrics>>
       \/ \E r \in {[kind |-> "none", test_code |-> <<>>], [kind |-> "other", test_code |-> <<>>]}
                   \cup {[kind |-> "TestCode", test_code |-> c] : c \in GenText} :
            /\ metrics' = record_response(metrics)
            /\ status' = [status EXCEPT ![idx].generate =
                              IF r.kind = "TestCode" THEN "ok" ELSE "failed"]
            /\ IF generate_failed(r)
               THEN /\ out' = Printed(idx, "Failed to generate test code")
                    /\ NextFile
                    /\ UNCHANGED response
               ELSE /\ response' = r
                    /\ pc' = "store"
                    /\ UNCHANGED <<idx, out>>
    /\ UNCHANGED <<fs, dirs, unreadable, files, content>>
    /\ UNCHANGED storeVars
    /\ UNCHANGED <<tasks, concurrency>>
    /\ UNCHANGED <<wf, session_state>>

\* store_response = self.store_agent.run(...): the agent raises, or calls its
\* tool with the paths and the code of the message, or answers without a call
WfStore ==
    /\ pc = "store"
    /\ trace' = Called("store", idx)
    /\ \/ /\ status' = [status EXCEPT ![idx].store = "raised"]
          /\ pc' = "aborted"
          /\ UNCHANGED storeVars
       \/ /\ Invoke("of_file_51", AppRoot, files[idx], response.test_code)
          /\ pc' = "storing"
          /\ UNCHANGED status
       \/ /\ pc' = "answer"
          /\ UNCHANGED status
          /\ UNCHANGED storeVars
    /\ UNCHANGED <<fs, dirs, unreadable, files, idx, content, response, out>>
    /\ UNCHANGED <<tasks, concurrency>>
    /\ UNCHANGED <<metrics, wf, session_state>>

\* the agent answers (an exception of its tool is the framework's to handle);
\* run prints the answer, or that storing failed when there is none
WfStored ==
    /\ \/ pc = "storing" /\ store.pc \in {"returned", "raised"}
       \/ pc = "answer"
    /\ \E answered \in BOOLEAN :
         /\ status' = [status EXCEPT ![idx].store =
                           IF pc = "storing" THEN store.result ELSE "not_called"]
         /\ out' = Printed(idx, IF answered THEN "stored" ELSE "Failed to store test code")
    /\ NextFile
    /\ UNCHANGED <<fs, dirs, unreadable, files, content, response, trace>>
    /\ UNCHANGED storeVars
    /\ UNCHANGED <<tasks, concurrency>>
    /\ UNCHANGED <<metrics, wf, session_state>>

NextWorkflow ==
    \/ WfScan \/ WfRead \/ WfGenerate \/ WfStore
    \/ StoreEnter \/ StoreMakedirs \/ StoreOpen \/ StoreWrite
    \/ WfStored

SpecWorkflow == InitSequential /\ [][NextWorkflow]_vars

\* -------------- generate_test_cases_for_app of 52_testcase_generator_agent.py
\* `# all_file_paths = pages + components` is commented out
all_file_paths(q) == SelectSeq(q, is_component)

\* file_paths_dict = get_nextjs_file_paths(app_path); all_file_paths = components
LoopScan ==
    /\ pc = "scan"
    /\ \E q \in walk_orders(tsx_files(fs, dirs, AppRoot)) :
         /\ response' = [kind |-> "NextJsFilePaths", fn |-> "paths_51", app_path |-> AppRoot,
                          raised |-> FALSE,
                          pages |-> SelectSeq(q, is_page),
                          components |-> SelectSeq(q, is_component)]
         /\ files' = all_file_paths(q)
         /\ status' = [i \in 1..Len(all_file_paths(q)) |-> NoStatus]
         /\ IF all_file_paths(q) = <<>> THEN idx' = 0 /\ pc' = "done"
            ELSE idx' = 1 /\ pc' = "read"
    /\ UNCHANGED <<fs, dirs, unreadable, content, trace, out>>
    /\ UNCHANGED <<tasks, concurrency, metrics, wf, session_state>>
    /\ UNCHANGED storeVars

\* create_jest_test_agent.print_response(...) for the file: a call of the model
\* API raises, or the agent calls the tool to get the code of the file
AgentReads ==
    /\ pc = "read"
    /\ \/ /\ pc' = "aborted"
          /\ UNCHANGED <<content, trace, status>>
       \/ LET r == get_file_code_51(fs, unreadable, files[idx])
          IN /\ trace' = Called("read", idx)
             /\ status' = [status EXCEPT ![idx].read = IF r.raised THEN "raised" ELSE "ok"]
             /\ content' = r.value
             /\ pc' = "store"
    /\ UNCHANGED <<fs, dirs, unreadable, files, idx, response, out>>
    /\ UNCHANGED <<tasks, concurrency, metrics, wf, session_state>>
    /\ UNCHANGED storeVars

\* the agent goes on: it calls the store tool with test code it wrote, or it
\* answers without storing anything
AgentStores ==
    /\ pc = "store"
    /\ \/ \E code \in GenText :
            /\ trace' = Called("store", idx)
            /\ Invoke("of_file_51", AppRoot, files[idx], code)
            /\ pc' = "storing"
       \/ /\ pc' = "answer"
          /\ UNCHANGED trace
          /\ UNCHANGED storeVars
    /\ UNCHANGED <<fs, dirs, unreadable, files, idx, content, response, status, out>>
    /\ UNCHANGED <<tasks, concurrency, metrics, wf, session_state>>

\* print_response prints the agent's answer and the loop goes on
AgentAnswers ==
    /\ \/ pc = "storing" /\ store.pc \in {"returned", "raised"}
       \/ pc = "answer"
    /\ status' = [status EXCEPT ![idx].store =
                      IF pc = "storing" THEN store.result ELSE "not_called"]
    /\ out' = Printed(idx, "answer")
    /\ NextFile
    /\ UNCHANGED <<fs, dirs, unreadable, files, content, response, trace>>
    /\ UNCHANGED <<tasks, concurrency, metrics, wf, session_state>>
    /\ UNCHANGED storeVars

NextAgentLoop ==
    \/ LoopScan \/ AgentReads \/ AgentStores
    \/ StoreEnter \/ StoreMakedirs \/ StoreOpen \/ StoreWrite
    \/ AgentAnswers

SpecAgentLoop == InitSequential /\ [][NextAgentLoop]_vars

\* ------ generate_test_cases_for_app_async of 56_testcase_generator_agent_pydantic.py
\* a run of the asynchronous runner, for any number of pipelines the caller wants
InitAsync == InitProject /\ concurrency \in 1..MaxConcurrency

seqVars == <<idx, content, response>>

\* tool code is synchronous: while a tool runs, the event loop runs nothing else
NoToolRunning == \A i \in DOMAIN tasks : tasks[i].pc # "storing"

\* the positions of a task that has started and has not ended
InFlightPcs == {"read", "generate", "store", "storing"}

\* the tasks that have started and have not ended
InFlight == {i \in DOMAIN tasks : tasks[i].pc \in InFlightPcs}

Unfinished == {i \in DOMAIN tasks : tasks[i].pc \notin {"done", "raised", "cancelled"}}

\* file_paths = get_nextjs_file_paths(app_path)
AsyncScan ==
    /\ pc = "scan"
    /\ \E q \in walk_orders(tsx_files(fs, dirs, AppRoot)) :
         /\ files' = q
         /\ status' = [i \in 1..Len(q) |-> NoStatus]
         /\ IF q = <<>> THEN idx' = 0 /\ pc' = "gather" ELSE idx' = 1 /\ pc' = "create"
    /\ UNCHANGED <<fs, dirs, unreadable, content, response, trace, out, tasks, concurrency>>
    /\ UNCHANGED storeVars
    /\ UNCHANGED <<metrics, wf, session_state>>

\* task = asyncio.create_task(orchestrator_agent.arun(...)); tasks.append(task):
\* one task for every file, none waiting for another to end
AsyncCreateTask ==
    /\ pc = "create"
    /\ tasks' = Append(tasks, [pc |-> "created", test_code |-> <<>>])
    /\ IF idx < Len(files) THEN idx' = idx + 1 /\ pc' = "create"
       ELSE idx' = idx /\ pc' = "gather"
    /\ UNCHANGED <<fs, dirs, unreadable, files, content, response, trace, status, out, concurrency>>
    /\ UNCHANGED storeVars
    /\ UNCHANGED <<metrics, wf, session_state>>

\* the event loop starts a task once the runner waits in gather
TaskStart(i) ==
    /\ pc = "gather" /\ NoToolRunning
    /\ tasks[i].pc = "created"
    /\ tasks' = [tasks EXCEPT ![i].pc = "read"]
    /\ UNCHANGED <<fs, dirs, unreadable, pc, files, trace, status, out, concurrency>>
    /\ UNCHANGED <<seqVars, storeVars>>
    /\ UNCHANGED <<metrics, wf, session_state>>

\* ReaderAgent calls get_file_code(file_path)
TaskRead(i) ==
    /\ pc = "gather" /\ NoToolRunning
    /\ tasks[i].pc = "read"
    /\ trace' = Called("read", i)
    /\ LET r == get_file_code(fs, unreadable, files[i])
       IN status' = [status EXCEPT ![i].read =
                         IF r.raised THEN "raised" ELSE read_status(r.value)]
    /\ tasks' = [tasks EXCEPT ![i].pc = "generate"]
    /\ UNCHANGED <<fs, dirs, unreadable, pc, files, out, concurrency>>
    /\ UNCHANGED <<seqVars, storeVars>>
    /\ UNCHANGED <<metrics, wf, session_state>>

\* WriterAgent answers with test code
TaskGenerate(i) ==
    /\ pc = "gather" /\ NoToolRunning
    /\ tasks[i].pc = "generate"
    /\ trace' = Called("generate", i)
    /\ \E code \in GenText :
         /\ tasks' = [tasks EXCEPT ![i].pc = "store", ![i].test_code = code]
         /\ metrics' = record_response(metrics)
         /\ status' = [status EXCEPT ![i].generate =
                           IF strip(code) = <<>> THEN "empty" ELSE "ok"]
    /\ UNCHANGED <<fs, dirs, unreadable, pc, files, out, concurrency>>
    /\ UNCHANGED <<seqVars, storeVars>>
    /\ UNCHANGED <<wf, session_state>>

\* StoreAgent calls store_jest_test_case_of_file
TaskStore(i) ==
    /\ pc = "gather" /\ NoToolRunning
    /\ tasks[i].pc = "store"
    /\ trace' = Called("store", i)
    /\ Invoke("of_file_54", AppRoot, files[i], tasks[i].test_code)
    /\ tasks' = [tasks EXCEPT ![i].pc = "storing"]
    /\ UNCHANGED <<fs, dirs, unreadable, pc, files, status, out, concurrency>>
    /\ UNCHANGED seqVars
    /\ UNCHANGED <<metrics, wf, session_state>>

\* the tool is over, having printed where it stored the test or that it skipped
\* or failed; the agent answers and the task ends
TaskStored(i) ==
    /\ tasks[i].pc = "storing"
    /\ store.pc \in {"returned", "raised"}
    /\ status' = [status EXCEPT ![i].store = store.result]
    /\ out' = Printed(i, store.result)
    /\ tasks' = [tasks EXCEPT ![i].pc = "done"]
    /\ UNCHANGED <<fs, dirs, unreadable, pc, files, trace, concurrency>>
    /\ UNCHANGED <<seqVars, storeVars>>
    /\ UNCHANGED <<metrics, wf, session_state>>

\* a call of the model API raises in a task that waits for it
TaskRaise(i) ==
    /\ pc = "gather" /\ NoToolRunning
    /\ tasks[i].pc \in {"read", "generate", "store"}
    /\ tasks' = [tasks EXCEPT ![i].pc = "raised"]
    /\ UNCHANGED <<fs, dirs, unreadable, pc, files, trace, status, out, concurrency>>
    /\ UNCHANGED <<seqVars, storeVars>>
    /\ UNCHANGED <<metrics, wf, session_state>>

\* await asyncio.gather(*tasks) returns when every task has ended well
GatherReturns ==
    /\ pc = "gather"
    /\ \A i \in DOMAIN tasks : tasks[i].pc = "done"
    /\ pc' = "done"
    /\ UNCHANGED <<fs, dirs, unreadable, files, trace, status, out, tasks, concurrency>>
    /\ UNCHANGED <<seqVars, storeVars>>
    /\ UNCHANGED <<metrics, wf, session_state>>

\* gather raises the first exception of a task; the runner ends with it and
\* asyncio.run cancels the tasks that have not ended
GatherRaises ==
    /\ pc = "gather" /\ NoToolRunning
    /\ \E i \in DOMAIN tasks : tasks[i].pc = "raised"
    /\ pc' = "aborted"
    /\ tasks' = [i \in DOMAIN tasks |->
                    IF i \in Unfinished THEN [tasks[i] EXCEPT !.pc = "cancelled"] ELSE tasks[i]]
    /\ UNCHANGED <<fs, dirs, unreadable, files, trace, status, out, concurrency>>
    /\ UNCHANGED <<seqVars, storeVars>>
    /\ UNCHANGED <<metrics, wf, session_state>>

\* the run is cancelled (an interrupt, or a timeout around the runner): nothing
\* in the runner catches or shields it, so asyncio cancels gather and with it
\* every task that has not ended, a started one at the await it is waiting in
RunCancelled ==
    /\ pc \in {"create", "gather"} /\ NoToolRunning
    /\ pc' = "cancelled"
    /\ tasks' = [i \in DOMAIN tasks |->
                    IF i \in Unfinished THEN [tasks[i] EXCEPT !.pc = "cancelled"] ELSE tasks[i]]
    /\ UNCHANGED <<fs, dirs, unreadable, files, trace, status, out, concurrency>>
    /\ UNCHANGED <<seqVars, storeVars>>
    /\ UNCHANGED <<metrics, wf, session_state>>

NextAsync ==
    \/ AsyncScan \/ AsyncCreateTask
    \/ \E i \in DOMAIN tasks : TaskStart(i)
    \/ \E i \in DOMAIN tasks : TaskRead(i)
    \/ \E i \in DOMAIN tasks : TaskGenerate(i)
    \/ \E i \in DOMAIN tasks : TaskStore(i)
    \/ \E i \in DOMAIN tasks : TaskStored(i)
    \/ \E i \in DOMAIN tasks : TaskRaise(i)
    \/ StoreEnter \/ StoreMakedirs \/ StoreOpen \/ StoreWrite
    \/ GatherReturns \/ GatherRaises \/ RunCancelled

SpecAsync == InitAsync /\ [][NextAsync]_vars

\* ------------------------------------- get_nextjs_file_paths called on its own
\* the functions that find the .tsx files: 51/52/53 return pages and components,
\* 54/56/57 return every file as a component
ScanFns == {"paths_51", "paths_54"}

\* the files a tree is made of: sources, a page, other files, files in and below
\* node_modules, in a directory and with a name that contain that text, and
\* files under other roots
TreeFiles == {
    <<<<"app">>, <<"b", ".tsx">>>>,
    <<<<"app">>, <<"ui">>, <<"page", ".tsx">>>>,
    <<<<"app">>, <<"ui">>, <<"my", "page", ".tsx">>>>,
    <<<<"app">>, <<"ui">>, <<"r", ".md">>>>,
    <<<<"app">>, <<"node_modules">>, <<"m", ".tsx">>>>,
    <<<<"app">>, <<"node_modules">>, <<"pkg">>, <<"page", ".tsx">>>>,
    <<<<"app">>, <<"my_", "node_modules", "_old">>, <<"m", ".tsx">>>>,
    <<<<"app">>, <<"node_modules", ".tsx">>>>,
    <<<<"node_modules">>, <<"app">>, <<"b", ".tsx">>>>,
    <<<<"lib">>, <<"b", ".tsx">>>> }

\* the roots discovery is called with: the project, a project whose own path
\* has node_modules in it, a path that does not exist, a regular file
GoneRoot == <<<<"gone">>>>
Roots == {AppRoot, <<<<"node_modules">>, <<"app">>>>, GoneRoot, <<<<"app">>, <<"b", ".tsx">>>>}

\* any tree of at most MaxFiles files; the project directory is there, even empty
InitDiscovery ==
    /\ \E S \in SUBSET TreeFiles :
         /\ Cardinality(S) <= MaxFiles
         /\ fs = [p \in S |-> SourceText]
         /\ dirs = {AppRoot} \cup UNION {Ancestors(dirname(p)) : p \in S}
    /\ store = Idle
    /\ fs0 = fs
    /\ dirs0 = dirs
    /\ ncalls = 0
    /\ NoRun

\* get_nextjs_file_paths(app_path): os.walk yields nothing for a root it cannot
\* list (its onerror is None), so the function returns without raising
ScanCall ==
    /\ pc = "tool"
    /\ \E fn \in ScanFns, app_path \in Roots :
         \E q \in walk_orders(tsx_files(fs, dirs, app_path)) :
            response' = [kind |-> "NextJsFilePaths", fn |-> fn, app_path |-> app_path,
                         raised |-> FALSE,
                         pages |-> IF fn = "paths_51" THEN SelectSeq(q, is_page) ELSE <<>>,
                         components |-> IF fn = "paths_51" THEN SelectSeq(q, is_component) ELSE q]
    /\ UNCHANGED <<fs, dirs, unreadable, pc, files, idx, content, trace, status, out>>
    /\ UNCHANGED <<tasks, concurrency, metrics, wf, session_state>>
    /\ UNCHANGED storeVars

NextDiscovery == ScanCall

SpecDiscovery == InitDiscovery /\ [][NextDiscovery]_vars

\* --------------------------------------------- get_file_code called on its own
\* the functions that read a file: 51/52/53 open it at once, 54/56/57 test that
\* it exists and strip what they read
ReadFns == {"code_51", "code_54"}

\* the paths a read is asked for
ReadPaths == {PageFile, ComponentFile}

\* what a file can hold: any short text, and the very text that get_file_code
\* returns for an empty file, alone or after whitespace
ReadTexts == Text \cup {EMPTY_MARKER, <<" ">> \o EMPTY_MARKER}

\* each of the paths is missing or holds any of the texts, and may be unreadable
InitRead ==
    /\ \E S \in SUBSET ReadPaths : fs \in [S -> ReadTexts]
    /\ dirs = UNION {Ancestors(dirname(p)) : p \in ReadPaths}
    /\ store = Idle
    /\ fs0 = fs
    /\ dirs0 = dirs
    /\ ncalls = 0
    /\ unreadable \in SUBSET DOMAIN fs
    /\ pc = "tool"
    /\ files = <<>>
    /\ idx = 0
    /\ content = <<>>
    /\ response = [kind |-> "none"]
    /\ trace = <<>>
    /\ status = <<>>
    /\ out = <<>>
    /\ tasks = <<>>
    /\ concurrency = 1
    /\ metrics = 0
    /\ wf = NoWorkflow
    /\ session_state = NoSession

\* get_file_code(file_path)
ReadCall ==
    /\ pc = "tool"
    /\ \E fn \in ReadFns, file_path \in ReadPaths :
         LET r == IF fn = "code_51" THEN get_file_code_51(fs, unreadable, file_path)
                  ELSE get_file_code(fs, unreadable, file_path)
         IN response' = [kind |-> "get_file_code", fn |-> fn, file_path |-> file_path,
                         raised |-> r.raised, value |-> r.value]
    /\ UNCHANGED <<fs, dirs, unreadable, pc, files, idx, content, trace, status, out>>
    /\ UNCHANGED <<tasks, concurrency, metrics, wf, session_state>>
    /\ UNCHANGED storeVars

NextRead == ReadCall

SpecRead == InitRead /\ [][NextRead]_vars

\* ------------------------------------------------------- claims on the writer
\* C6: a store call given blank (empty or whitespace-only) test code returns a
\* skipped result and leaves the file system as it was: no directory is made
\* and no file is created or modified.
C6_BlankCodeTouchesNothing ==
    (store.pc # "idle" /\ strip(store.test_code) = <<>>) =>
        /\ fs = fs0
        /\ dirs = dirs0
        /\ store.pc = "returned" => store.result = "skipped"

\* C7: a store call that succeeds has created or overwritten exactly one file,
\* the computed target, which now holds exactly the test code whatever it held
\* before; every other file is as it was, and the target is not the source file.
C7_WriteChangesOnlyTarget ==
    store.result = "written" =>
        /\ store.target \in DOMAIN fs
        /\ fs[store.target] = store.test_code
        /\ DOMAIN fs = DOMAIN fs0 \cup {store.target}
        /\ \A p \in DOMAIN fs0 : p # store.target => fs[p] = fs0[p]
        /\ store.target # normpath(store.file_path)
        /\ normpath(store.file_path) \in DOMAIN fs0 =>
               fs[normpath(store.file_path)] = fs0[normpath(store.file_path)]

\* C7 witness: a successful call has replaced different, non-empty content
C7_Overwrote ==
    /\ store.result = "written"
    /\ store.target \in DOMAIN fs0
    /\ fs0[store.target] # <<>>
    /\ fs0[store.target] # store.test_code
    /\ fs[store.target] = store.test_code

\* C8: at every point during and after a store call the target path either does
\* not exist, holds its complete previous content, or holds the complete new
\* content.
C8_NoHalfWrittenTarget ==
    store.pc # "idle" =>
        LET t == target_of(store.fn, store.app_path, store.file_path)
        IN \/ t \notin DOMAIN fs
           \/ t \in DOMAIN fs0 /\ fs[t] = fs0[t]
           \/ fs[t] = store.test_code

\* ------------------------------------------------------ claims on the runners
Ended == pc \in {"done", "aborted"}

\* C1: once a run has ended, its report holds exactly one terminal entry for
\* every discovered file: none has no entry, none has two.
C1_OneEntryPerFile ==
    Ended => \A i \in DOMAIN files : Cardinality({k \in DOMAIN out : out[k].file = i}) = 1

Rank(stage) == CASE stage = "read" -> 1 [] stage = "generate" -> 2 [] stage = "store" -> 3

C3_FailureNeverAborts ==
    /\ pc # "aborted"
    /\ Ended => \A i \in DOMAIN files : \E k \in DOMAIN trace :
                    trace[k] = [stage |-> "read", file |-> i]

\* C4: the generate stage is only ever called for a file whose read returned ok,
\* never for a missing, zero-byte or whitespace-only file.
C4_NoGenerateAfterBadRead ==
    \A k \in DOMAIN trace :
        trace[k].stage = "generate" => status[trace[k].file].read = "ok"

\* C5: a generate stage that failed (the agent raised, or returned something
\* that is no test result) is a failed status: no exception ends the run and
\* the store stage is not called for that file.
C5_GenerateFailureIsData ==
    \A i \in DOMAIN status :
        status[i].generate \in {"failed", "raised"} =>
            /\ pc # "aborted"
            /\ \A k \in DOMAIN trace : trace[k] # [stage |-> "store", file |-> i]

\* C9: when files are processed concurrently, the per-file results a finished
\* run has reported are one for every file, in discovery order, whatever order
\* the file pipelines ended in.
C9_ReportedInDiscoveryOrder ==
    pc = "done" => /\ Len(out) = Len(files)
                   /\ \A k \in DOMAIN out : out[k].file = k

\* C10: with a concurrency option of N, never more than N file pipelines are in
\* flight at once.
C10_AtMostNInFlight == Cardinality(InFlight) <= concurrency

\* -------------------------------------------------- claims on concurrent runs
\* C11: concurrent file pipelines share no mutable in-memory state: a step of
\* one pipeline changes nothing in memory that another pipeline in flight at the
\* same time reads or writes, neither that pipeline's own data nor anything else.
C11_NoSharedMemory ==
    [][\A i, j \in DOMAIN tasks :
          (/\ pc = "gather" /\ pc' = "gather"
           /\ i # j /\ i \in InFlight /\ j \in InFlight
           /\ tasks'[j] # tasks[j])
          => (tasks'[i] = tasks[i] /\ metrics' = metrics)]_vars

\* C12: after a run-level cancellation no new file pipeline is started, and the
\* pipelines in flight when it came are not cut off: the cancellation leaves
\* them as they are, to run on to their own end.
C12_CancelSparesInFlight ==
    [][/\ (pc # "cancelled" /\ pc' = "cancelled") =>
             \A i \in InFlight : tasks'[i] = tasks[i]
       /\ pc = "cancelled" =>
             \A i \in DOMAIN tasks : tasks[i].pc = "created" => tasks'[i].pc \notin InFlightPcs]_vars

\* ------------------------------------------------- claims on the end of a run
Succeeded(i) == status[i].store = "written"

Skipped(i) ==
    \/ status[i].store = "skipped"
    \/ status[i].read \in {"not_found", "empty"} /\ status[i].generate = "none"

Failed(i) ==
    \/ status[i].read \in {"failed", "raised"}
    \/ status[i].generate \in {"failed", "raised"}
    \/ status[i].store \in {"io_error", "raised", "not_called"}

\* C13: whatever the outcomes of the stages, when the run has ended every
\* discovered file is in a terminal state (succeeded, skipped or failed): no
\* file is left untouched or between two stages.
C13_EveryFileTerminal ==
    Ended => \A i \in DOMAIN files : Succeeded(i) \/ Skipped(i) \/ Failed(i)

\* -------------------------------------------------------- claims on discovery
\* C14: discovery on a root that does not exist fails with a not-found error;
\* it does not return a file list, empty or not, for the run to go on with.
C14_MissingRootRaises ==
    (response.kind = "NextJsFilePaths" /\ response.app_path \notin dirs) => response.raised

\* what a returned NextJsFilePaths holds: pages, then components
Found == response.pages \o response.components

FoundSet == {Found[k] : k \in DOMAIN Found}

\* the regular files below the root a scan was called with
UnderRoot(p) == response.app_path \in dirs /\ IsPrefix(response.app_path, dirname(p))

EndsWithFilter(p) == p[Len(p)][Len(p[Len(p)])] = ".tsx"

\* the text of the excluded directory name occurs in a path
HasExcludedName(path) ==
    \E k \in 1..Len(path) : \E j \in 1..Len(path[k]) : path[k][j] = "node_modules"

\* C15 as stated: the paths discovery returns are, each exactly once, the files
\* under the root whose name ends with the extension filter, minus every file
\* whose path contains an excluded directory name.
C15_FoundAllButExcludedPaths ==
    response.kind = "NextJsFilePaths" =>
        /\ Injective(Found)
        /\ FoundSet = {p \in DOMAIN fs :
                          UnderRoot(p) /\ EndsWithFilter(p) /\ ~HasExcludedName(p)}

\* C15 as amended: the paths discovery returns are, each exactly once, the files
\* under the root whose name ends with the extension filter, minus every file
\* whose containing directory has the excluded name somewhere in its path; the
\* file's own name does not count.
C15_FoundAllButExcludedDirs ==
    response.kind = "NextJsFilePaths" =>
        /\ Injective(Found)
        /\ FoundSet = {p \in DOMAIN fs :
                          UnderRoot(p) /\ EndsWithFilter(p) /\ ~HasExcludedName(dirname(p))}

\* C15 witness: a scan of the project has returned some files and left out a
\* .tsx file below node_modules and a file that is no .tsx
C15_FoundSomeDroppedSome ==
    /\ response.kind = "NextJsFilePaths"
    /\ response.app_path = AppRoot
    /\ FoundSet # {}
    /\ \E p \in DOMAIN fs \ FoundSet : UnderRoot(p) /\ EndsWithFilter(p)
    /\ \E p \in DOMAIN fs \ FoundSet : UnderRoot(p) /\ ~EndsWithFilter(p)

\* C16: exclusion is decided per visited directory, by a substring test on the
\* directory's path, and not per file: a matching file under the root is dropped
\* exactly when the path of its containing directory contains the excluded name;
\* so nothing is returned when the root's own path contains it, and a file whose
\* own name contains it, in a directory whose path does not, is discovered.
C16_ExclusionByDirectoryPath ==
    response.kind = "NextJsFilePaths" =>
        /\ \A p \in DOMAIN fs :
              (UnderRoot(p) /\ EndsWithFilter(p)) =>
                  (p \notin FoundSet <=> HasExcludedName(dirname(p)))
        /\ HasExcludedName(response.app_path) => Found = <<>>
        /\ \A p \in DOMAIN fs :
              (/\ UnderRoot(p) /\ EndsWithFilter(p)
               /\ HasExcludedName(<<p[Len(p)]>>) /\ ~HasExcludedName(dirname(p)))
              => p \in FoundSet

\* C16 witness: one scan has returned a file named after the excluded directory
\* and has dropped a file two levels below an excluded directory
C16_NameKeptDeepDropped ==
    /\ response.kind = "NextJsFilePaths"
    /\ \E p \in FoundSet : HasExcludedName(<<p[Len(p)]>>)
    /\ \E p \in DOMAIN fs \ FoundSet :
         /\ UnderRoot(p) /\ EndsWithFilter(p)
         /\ HasExcludedName(dirname(dirname(p)))

\* C17: the default classification partitions the discovered files: a file is
\* among the pages exactly when its name is exactly page.tsx and among the
\* components otherwise, no file is in both lists, and the two lists together
\* are as long as the list of discovered files.
C17_PagesAndComponentsPartition ==
    (response.kind = "NextJsFilePaths" /\ response.fn = "paths_51") =>
        LET Pages == {response.pages[k] : k \in DOMAIN response.pages}
            Components == {response.components[k] : k \in DOMAIN response.components}
            Matching == {p \in DOMAIN fs : UnderRoot(p) /\ EndsWithFilter(p)
                                              /\ ~HasExcludedName(dirname(p))}
        IN /\ \A p \in Matching : p \in Pages <=> p[Len(p)] = <<"page", ".tsx">>
           /\ \A p \in Matching : p \in Components <=> p[Len(p)] # <<"page", ".tsx">>
           /\ Pages \cap Components = {}
           /\ Len(response.pages) + Len(response.components) = Cardinality(Matching)

\* C17 witness: a scan has returned a page, and among the components a file
\* whose name ends with page.tsx without being page.tsx
C17_PageAndNearPage ==
    /\ response.kind = "NextJsFilePaths" /\ response.fn = "paths_51"
    /\ response.pages # <<>>
    /\ \E k \in DOMAIN response.components :
         LET name == response.components[k][Len(response.components[k])]
         IN Len(name) = 3 /\ name[2] = "page"

\* C18: with no category filter the run processes every discovered file of
\* every category: when it is over, each discovered page and each discovered
\* component has entered the read stage.
C18_EveryCategoryRead ==
    (pc = "done" /\ response.kind = "NextJsFilePaths") =>
        \A p \in FoundSet :
            \E i \in DOMAIN files :
                /\ files[i] = p
                /\ \E k \in DOMAIN trace : trace[k] = [stage |-> "read", file |-> i]

\* ------------------------------------------------------- claims on the reader
\* C19: reading a path that does not exist returns a not_found result with
\* empty text and does not raise.
C19_MissingPathIsNotFound ==
    (response.kind = "get_file_code" /\ response.file_path \notin DOMAIN fs) =>
        /\ ~response.raised
        /\ response.value = <<>>
        /\ read_status(response.value) = "not_found"

\* C20: reading an existing file returns the status empty exactly when the file
\* is zero-length or whitespace-only after trimming: a blank file is reported
\* empty, and that result differs from not_found and from what an ok read of
\* any non-blank content returns.
C20_EmptyIsItsOwnStatus ==
    (/\ response.kind = "get_file_code" /\ response.fn = "code_54"
     /\ response.file_path \in DOMAIN fs /\ ~response.raised) =>
        /\ read_status(response.value) # "not_found"
        /\ read_status(response.value) = "empty" <=> strip(fs[response.file_path]) = <<>>

\* C21: any other failure while reading an existing file (permission denied,
\* undecodable bytes) comes back as a read_error result: the reader lets no
\* exception escape to its caller.
C21_ReadFailureIsData ==
    (/\ response.kind = "get_file_code"
     /\ response.file_path \in DOMAIN fs
     /\ response.file_path \in unreadable) =>
        /\ ~response.raised
        /\ read_status(response.value) \notin {"ok", "empty", "not_found"}

\* ------------------------------------------------- claims on the target path
\* the store functions that append .test.js after the full file name
AppendFns == {"of_file_51", "of_file_54"}

\* the file a store call was given lies under the root it was given
SourceUnderRoot == IsPrefix(store.app_path, dirname(store.file_path))

\* the file's path relative to the root
RelativeSource ==
    SubSeq(store.file_path, Len(store.app_path) + 1, Len(store.file_path))

\* C22: in append mode the test for a file under the root R, at any depth, is
\* written at R, then __tests__, then the file's path relative to R with
\* .test.js appended after the full file name.
C22_AppendTargetMirrorsPath ==
    (store.result = "written" /\ store.fn \in AppendFns /\ SourceUnderRoot) =>
        LET rel == RelativeSource
            n == Len(rel)
            mirrored == store.app_path \o << <<"__tests__">> >> \o SubSeq(rel, 1, n - 1)
                        \o << rel[n] \o <<".test.js">> >>
        IN /\ store.target = mirrored
           /\ mirrored \in DOMAIN fs
           /\ fs[mirrored] = store.test_code

\* C22 witness: a test was written in append mode for a file two directories
\* below the root
C22_WroteTwoLevelsDown ==
    /\ store.result = "written" /\ store.fn \in AppendFns /\ SourceUnderRoot
    /\ Len(RelativeSource) = 3
    /\ Len(store.target) = Len(store.app_path) + 4

\* the mirror directory of a written test: the root, __tests__, and the
\* directories between the root and the source file
MirrorDir ==
    store.app_path \o << <<"__tests__">> >>
        \o SubSeq(RelativeSource, 1, Len(RelativeSource) - 1)

\* the source file's name, and the name without its last dotted part
SourceName == store.file_path[Len(store.file_path)]

SourceStem == SubSeq(SourceName, 1, Len(SourceName) - 1)

\* C23 as stated: the writer has both modes: append puts the suffix .test.js
\* after the full file name, and replace (store_jest_test_case) puts it in the
\* place of the file's extension, so that the replace-mode target is the
\* relative path without its extension followed by .test.js.
C23_ReplacePutsSuffixForExtension ==
    (store.result = "written" /\ SourceUnderRoot) =>
        store.target = MirrorDir \o
            << IF store.fn \in AppendFns THEN SourceName \o <<".test.js">>
               ELSE SourceStem \o <<".test.js">> >>

\* C23 as amended: append puts .test.js after the full file name, and
\* store_jest_test_case keeps the file's extension and puts .test before it:
\* its target is the relative path without the extension, then .test, then the
\* extension.
C23_ReplaceKeepsExtension ==
    (store.result = "written" /\ SourceUnderRoot) =>
        store.target = MirrorDir \o
            << IF store.fn \in AppendFns THEN SourceName \o <<".test.js">>
               ELSE SourceStem \o <<".test", SourceName[Len(SourceName)]>> >>

\* C23 witness: store_jest_test_case has written the test of a .tsx file that
\* lies below the root
C23_WroteInReplaceMode ==
    /\ store.result = "written" /\ store.fn = "test_case_51" /\ SourceUnderRoot
    /\ SourceName[Len(SourceName)] = ".tsx"
    /\ store.target \in DOMAIN fs

\* ------------------------------------------------------- claims on repetition
\* the call in progress repeats an earlier successful call: when it was entered
\* its target already held the very test code it was given
RepeatsCall ==
    LET t == target_of(store.fn, store.app_path, store.file_path)
    IN /\ store.pc # "idle"
       /\ ncalls >= 2
       /\ t \in DOMAIN fs0
       /\ fs0[t] = store.test_code

\* C24: writing is idempotent: a store call that repeats an earlier one, with
\* the same original file and the same generated content, is not made to fail
\* by the directories and the target that already exist, and when it has
\* succeeded every file holds the bytes it held after the first call and no
\* directory has been added.
C24_WriteIsIdempotent ==
    RepeatsCall =>
        LET d == dirname(test_file_path(store.app_path, store.file_path))
            t == target_of(store.fn, store.app_path, store.file_path)
        IN /\ store.pc = "makedirs" => ~makedirs_blocked(fs, d)
           /\ store.pc = "open" => t \notin dirs
           /\ store.result = "written" => fs = fs0 /\ dirs = dirs0

\* C24 witness: the second of two identical calls has succeeded over a target
\* with content
C24_WroteSameTwice ==
    /\ RepeatsCall
    /\ store.result = "written"
    /\ store.test_code # <<>>
    /\ fs[store.target] = store.test_code

\* -------------------------------------------------- discovery after a storing
\* the project of a first run: a component and a page
RerunFiles == {
    <<<<"app">>, <<"b", ".tsx">>>>,
    <<<<"app">>, <<"ui">>, <<"page", ".tsx">>>> }

InitRerun ==
    /\ fs = [p \in RerunFiles |-> SourceText]
    /\ dirs = UNION {Ancestors(dirname(p)) : p \in RerunFiles}
    /\ store = Idle
    /\ fs0 = fs
    /\ dirs0 = dirs
    /\ ncalls = 0
    /\ NoRun

\* the first run stores the test of a file it discovered
RerunStore ==
    /\ store.pc \in {"idle", "returned", "raised"}
    /\ response.kind = "none"
    /\ ncalls < MaxCalls
    /\ \E fn \in StoreFns, file_path \in RerunFiles, test_code \in Text :
         /\ store.fn \in {"none", fn}
         /\ Invoke(fn, AppRoot, file_path, test_code)
    /\ UNCHANGED <<fs, dirs>>
    /\ UNCHANGED runVars

\* the second run begins: get_nextjs_file_paths on the same root, once the
\* first run has stored what it stored
Rescan ==
    /\ store.pc \in {"returned", "raised"}
    /\ response.kind = "none"
    /\ pc = "tool"
    /\ \E q \in walk_orders(tsx_files(fs, dirs, store.app_path)) :
         \E fn \in ScanFns :
            response' = [kind |-> "NextJsFilePaths", fn |-> fn, app_path |-> store.app_path,
                         raised |-> FALSE,
                         pages |-> IF fn = "paths_51" THEN SelectSeq(q, is_page) ELSE <<>>,
                         components |-> IF fn = "paths_51" THEN SelectSeq(q, is_component) ELSE q]
    /\ UNCHANGED <<fs, dirs, unreadable, pc, files, idx, content, trace, status, out>>
    /\ UNCHANGED <<tasks, concurrency, metrics, wf, session_state>>
    /\ UNCHANGED storeVars

NextRerun == RerunStore \/ StoreEnter \/ StoreMakedirs \/ StoreOpen \/ StoreWrite \/ Rescan

SpecRerun == InitRerun /\ [][NextRerun]_vars

\* what the first run discovered: the sources of the project as it was
FirstRunSources ==
    tsx_files([p \in RerunFiles |-> SourceText],
              UNION {Ancestors(dirname(p)) : p \in RerunFiles}, AppRoot)

InTestsDir(p) == \E k \in 1..Len(p) : p[k] = TESTS_DIR

\* C25: a scan of the project made after tests have been stored finds exactly
\* the source files the first scan found, and none of the files under
\* __tests__, whichever store function wrote them.
C25_RescanFindsSameSources ==
    (response.kind = "NextJsFilePaths" /\ response.app_path = AppRoot) =>
        /\ FoundSet = FirstRunSources
        /\ \A p \in FoundSet : ~InTestsDir(p)

\* C26: in the direct pipeline the test stored while a discovered file is being
\* processed is written at the mirrored path of that very file under the root
\* the run was started with, whatever paths the generator returned.
C26_StoredForProcessedFile ==
    (pc = "storing" /\ store.result = "written") =>
        store.target = normpath(final_test_path(AppRoot, files[idx]))

\* C27: two distinct discovered files never map to the same target, with the
\* appending and with the extension-keeping store function, and no store call
\* of a run writes a target that an earlier file pipeline of the same run has
\* written (the project has no stored tests when a run begins).
C27_NoTargetWrittenTwice ==
    /\ \A fn \in StoreFns : \A i, j \in DOMAIN files :
         i # j => target_of(fn, AppRoot, files[i]) # target_of(fn, AppRoot, files[j])
    /\ (pc = "storing" /\ store.pc # "idle") =>
         target_of(store.fn, store.app_path, store.file_path) \notin DOMAIN fs0

\* ----------------------------------------------------- phi.workflow.Workflow
MaxTasks == 3      \* most tasks in the list of a Workflow

\* Optional[str]: None is the empty set, a string s is {s}
None == {}
Some(s) == {s}
IsNone(o) == o = {}
Value(o) == CHOOSE s \in o : TRUE

\* a string of the workflow is a sequence of tokens; sep.join(list)
RECURSIVE join(_, _)
join(sep, list) ==
    IF list = <<>> THEN <<>>
    ELSE IF Len(list) = 1 THEN list[1]
    ELSE list[1] \o <<sep>> \o join(sep, Tail(list))

\* get_text_from_message(message) of a str message is the message
get_text_from_message(message) == message

\* what a task's run produces: in streaming mode one chunk for every token
TaskTexts == {<<"a">>, <<"b">>, <<"a", "b">>}
Chunked(text) == [j \in 1..Len(text) |-> <<text[j]>>]

\* Task.get_task_output_as_str(): the output the task has kept, or None
get_task_output_as_str(task) == task.output

HEADER == <<"\nHere are previous tasks and and their results:\n---">>
FOOTER == <<"---">>

\* f"Task {previous_task_idx}: {previous_task.description}"
TaskLine(previous_task_idx, description) ==
    <<"Task ", ToString(previous_task_idx), ": ">> \o description

RECURSIVE previous_lines(_, _, _)
previous_lines(executed_tasks, tasklist, from) ==
    IF from > Len(executed_tasks) THEN <<>>
    ELSE LET previous_task == tasklist[executed_tasks[from]]
             previous_task_output == get_task_output_as_str(previous_task)
         IN (IF IsNone(previous_task_output) THEN <<>>
             ELSE <<TaskLine(from, previous_task.description), Value(previous_task_output)>>)
            \o previous_lines(executed_tasks, tasklist, from + 1)

\* only the task that ran last is reported to the next one
task_input_last(message, executed_tasks, tasklist) ==
    (IF IsNone(message) THEN <<>> ELSE <<get_text_from_message(Value(message))>>)
    \o (LET last == IF executed_tasks = <<>> THEN 1 ELSE Len(executed_tasks)
            lines == previous_lines(executed_tasks, tasklist, last)
        IN IF lines = <<>> THEN <<>> ELSE <<HEADER>> \o lines \o <<FOOTER>>)

\* task_input: the message, then the output of every executed task that has one
task_input(message, executed_tasks, tasklist) ==
    (IF IsNone(message) THEN <<>> ELSE <<get_text_from_message(Value(message))>>)
    \o (LET lines == previous_lines(executed_tasks, tasklist, 1)
        IN IF lines = <<>> THEN <<>> ELSE <<HEADER>> \o lines \o <<FOOTER>>)

\* input_for_current_task = "\n".join(task_input)
input_for_current_task(message, executed_tasks, tasklist) ==
    join("\n", task_input(message, executed_tasks, tasklist))

\* the calls a program makes on a Workflow: run, or _run and a loop over it
WorkflowCalls == [method : {"run", "_run"}, stream : BOOLEAN]

InitPhiWorkflow ==
    /\ \E n \in 0..MaxTasks : \E streamable \in [1..n -> BOOLEAN] :
         \E call \in WorkflowCalls, message \in {None, Some(<<"m">>)} :
            wf = [pc |-> "call", call |-> call, message |-> message,
                  tasks |-> [i \in 1..n |-> [streamable |-> streamable[i],
                                             description |-> <<"d">>,
                                             output |-> None]],
                  output |-> None, stream |-> call.stream, consumer |-> "for",
                  idx |-> 0, executed_tasks |-> <<>>, workflow_output |-> <<>>,
                  task_output |-> <<>>, chunks |-> <<>>,
                  yielded |-> <<>>, resume |-> "none",
                  received |-> <<>>, returned |-> None]
    /\ fs = <<>>
    /\ dirs = {}
    /\ store = Idle
    /\ fs0 = fs
    /\ dirs0 = dirs
    /\ ncalls = 0
    /\ unreadable = {}
    /\ pc = "tool"
    /\ files = <<>>
    /\ idx = 0
    /\ content = <<>>
    /\ response = [kind |-> "none"]
    /\ trace = <<>>
    /\ status = <<>>
    /\ out = <<>>
    /\ tasks = <<>>
    /\ concurrency = 1
    /\ metrics = 0
    /\ session_state = NoSession

\* everything but the workflow and the history of its task runs
besideWorkflow == <<fs, dirs, store, fs0, dirs0, ncalls, unreadable, pc, files, idx,
                    content, response, status, out, tasks, concurrency, metrics,
                    session_state>>

\* Workflow.run: both branches make the generator with stream=True; with
\* stream it is returned to the caller, who loops over it, without stream
\* next(resp) is returned
Workflow_run ==
    /\ wf.pc = "call" /\ wf.call.method = "run"
    /\ wf' = [wf EXCEPT !.pc = "loop", !.stream = TRUE,
                        !.consumer = IF wf.call.stream THEN "for" ELSE "next"]
    /\ UNCHANGED <<trace, besideWorkflow>>

\* for chunk in workflow._run(message, stream=...): the generator is started
Workflow__run ==
    /\ wf.pc = "call" /\ wf.call.method = "_run"
    /\ wf' = [wf EXCEPT !.pc = "loop", !.stream = wf.call.stream, !.consumer = "for"]
    /\ UNCHANGED <<trace, besideWorkflow>>

\* the next task of the loop: its input is made and task.run is called
RunTask ==
    /\ wf.pc = "loop"
    /\ wf.idx < Len(wf.tasks)
    /\ LET k == wf.idx + 1
           input == input_for_current_task(wf.message, wf.executed_tasks, wf.tasks)
       IN /\ trace' = Append(trace, [ev |-> "start", task |-> k, input |-> input,
                                     output |-> None])
          /\ \E text \in TaskTexts :
               wf' = [wf EXCEPT !.pc = "task", !.idx = k,
                        !.task_output = IF wf.stream /\ wf.tasks[k].streamable
                                        THEN <<>> ELSE text,
                        !.chunks = IF wf.stream /\ wf.tasks[k].streamable
                                   THEN Chunked(text) ELSE <<>>]
    /\ UNCHANGED besideWorkflow

\* task_output += chunk; yield chunk
RunChunk ==
    /\ wf.pc = "task"
    /\ wf.chunks # <<>>
    /\ wf' = [wf EXCEPT !.pc = "yield", !.resume = "task",
                        !.task_output = wf.task_output \o Head(wf.chunks),
                        !.chunks = Tail(wf.chunks),
                        !.yielded = Head(wf.chunks)]
    /\ UNCHANGED <<trace, besideWorkflow>>

\* task.run raises: the exception leaves the generator and reaches the caller
RunTaskRaises ==
    /\ wf.pc = "task"
    /\ wf' = [wf EXCEPT !.pc = "raised"]
    /\ UNCHANGED <<trace, besideWorkflow>>

\* the task is over, having kept its output or none; executed_tasks.append(task),
\* workflow_output.append(task_output), and `if not stream: yield task_output`
RunTaskEnd ==
    /\ wf.pc = "task"
    /\ wf.chunks = <<>>
    /\ \E kept \in {None, Some(wf.task_output)} :
         /\ wf' = [wf EXCEPT !.tasks[wf.idx].output = kept,
                             !.executed_tasks = Append(wf.executed_tasks, wf.idx),
                             !.workflow_output = Append(wf.workflow_output, wf.task_output),
                             !.pc = IF wf.stream THEN "loop" ELSE "yield",
                             !.resume = IF wf.stream THEN wf.resume ELSE "loop",
                             !.yielded = IF wf.stream THEN wf.yielded ELSE wf.task_output]
         /\ trace' = Append(trace, [ev |-> "end", task |-> wf.idx, input |-> <<>>,
                                    output |-> kept])
    /\ UNCHANGED besideWorkflow

\* after the last task: self.output = "\n".join(workflow_output) and the
\* generator returns (save_output_to_file is None); a for loop over it ends,
\* a bare next() on it raises StopIteration
RunEnd ==
    /\ wf.pc = "loop"
    /\ wf.idx = Len(wf.tasks)
    /\ wf' = [wf EXCEPT !.output = Some(join("\n", wf.workflow_output)),
                        !.pc = IF wf.consumer = "for" THEN "consumed" ELSE "raised"]
    /\ UNCHANGED <<trace, besideWorkflow>>

\* return next(resp): the first value the generator yields is what run returns
NextReturns ==
    /\ wf.pc = "yield" /\ wf.consumer = "next"
    /\ wf' = [wf EXCEPT !.pc = "returned", !.returned = Some(wf.yielded)]
    /\ UNCHANGED <<trace, besideWorkflow>>

\* the caller's loop takes the value and asks for the next one
ForTakes ==
    /\ wf.pc = "yield" /\ wf.consumer = "for"
    /\ wf' = [wf EXCEPT !.pc = wf.resume, !.received = Append(wf.received, wf.yielded)]
    /\ UNCHANGED <<trace, besideWorkflow>>

NextPhiWorkflow ==
    \/ Workflow_run \/ Workflow__run \/ RunTask \/ RunChunk \/ RunTaskRaises
    \/ RunTaskEnd \/ RunEnd \/ NextReturns \/ ForTakes

SpecPhiWorkflow == InitPhiWorkflow /\ [][NextPhiWorkflow]_vars

\* ------------------------------------------------------ claims on Workflow
\* the tasks of the list have each been started and ended once, in list order,
\* none started before the one before it had ended
RanAllInOrder ==
    /\ Len(trace) = 2 * Len(wf.tasks)
    /\ \A k \in 1..Len(wf.tasks) :
         /\ trace[2 * k - 1].ev = "start" /\ trace[2 * k - 1].task = k
         /\ trace[2 * k].ev = "end" /\ trace[2 * k].task = k

\* C28: when Workflow.run called with stream=False has returned, every task of
\* the list has been run, in list order; the value returned is the whole
\* output of the workflow, and self.output is the outputs of all tasks joined
\* by newlines.
C28_RunReturnsWholeOutput ==
    (wf.pc = "returned" /\ wf.call = [method |-> "run", stream |-> FALSE]) =>
        /\ RanAllInOrder
        /\ Len(wf.workflow_output) = Len(wf.tasks)
        /\ wf.returned = Some(join("\n", wf.workflow_output))
        /\ wf.output = Some(join("\n", wf.workflow_output))

\* the strings of list occur in s one after the other, in the order of the list
RECURSIVE ContainsInOrder(_, _)
ContainsInOrder(s, list) ==
    \/ list = <<>>
    \/ \E p \in 1..(Len(s) + 1) :
         /\ p + Len(Head(list)) - 1 <= Len(s)
         /\ SubSeq(s, p, p + Len(Head(list)) - 1) = Head(list)
         /\ ContainsInOrder(SubSeq(s, p + Len(Head(list)), Len(s)), Tail(list))

\* the outputs kept by the tasks before task k, those that kept one, in order
RECURSIVE EarlierOutputs(_, _)
EarlierOutputs(k, from) ==
    IF from >= k THEN <<>>
    ELSE (IF IsNone(trace[2 * from].output) THEN <<>>
          ELSE <<Value(trace[2 * from].output)>>)
         \o EarlierOutputs(k, from + 1)

\* C29: once a loop over the iterator of Workflow._run has come to its end,
\* every task has been run exactly once, in list order, each started after
\* the one before it had ended, and the input given to a task holds the output
\* of every earlier task that has one, in task order.
C29_ConsumedRunChainsOutputs ==
    wf.pc = "consumed" =>
        /\ RanAllInOrder
        /\ \A k \in 1..Len(wf.tasks) :
             ContainsInOrder(trace[2 * k - 1].input, EarlierOutputs(k, 1))

\* C29 witness: a loop has ended over three tasks of which the first two kept
\* different outputs
C29_ThirdTaskSawBoth ==
    /\ wf.pc = "consumed"
    /\ Len(wf.tasks) >= 3
    /\ ~IsNone(wf.tasks[1].output)
    /\ ~IsNone(wf.tasks[2].output)
    /\ wf.tasks[1].output # wf.tasks[2].output
    /\ wf.received # <<>>

\* ------------------------------------------- custom_agent_builder/app.py
MaxChats == 3      \* chat ids made in one browser session
MaxPosts == 3      \* chat messages submitted in one browser session

\* the agent names GET /agents returns when it succeeds
AvailableAgents == <<"a1", "a2">>

\* reset_chat(): a chat id never used before, and no messages
reset_chat(ss) == [ss EXCEPT !.chat_id = ss.chat_id + 1, !.messages = <<>>]

\* init_session_state(): the three keys are set when they are missing
init_session_state(ss) ==
    IF "chat_id" \in ss.keys THEN ss
    ELSE [keys |-> {"chat_id", "messages", "current_agent"},
          chat_id |-> 1, messages |-> <<>>, current_agent |-> None,
          agent_selector |-> None]

\* on_agent_change(): the callback of the selector
on_agent_change(ss) ==
    LET selected == ss.agent_selector
    IN IF selected # ss.current_agent
       THEN reset_chat([ss EXCEPT !.current_agent = selected])
       ELSE ss

\* st.selectbox(..., agents, key="agent_selector", on_change=on_agent_change):
\* a widget drawn for the first time takes the first option as its value and
\* stores it under its key; its callback runs only when the user changes it
selectbox(ss) ==
    IF "agent_selector" \in ss.keys THEN ss
    ELSE [ss EXCEPT !.keys = @ \cup {"agent_selector"},
                    !.agent_selector = Some(AvailableAgents[1])]

\* one run of main(): the session state it leaves, the requests posted so far,
\* and whether the page was drawn or st.stop() ended the run
main(ss, agents, user_input, status_code, clear, posted) ==
    LET s1 == init_session_state(ss)
    IN IF agents = <<>>
       THEN [session |-> s1, posted |-> posted, page |-> "stopped"]
       ELSE LET s2 == selectbox(s1)
                s3 == IF IsNone(user_input) THEN s2
                      ELSE [s2 EXCEPT !.messages =
                              Append(@, [role |-> "user", content |-> Value(user_input)])]
                post == [current_agent |-> s3.current_agent,
                         chat_id |-> s3.chat_id,
                         agent_selector |-> s3.agent_selector]
                s4 == IF ~IsNone(user_input) /\ status_code = 200
                      THEN [s3 EXCEPT !.messages =
                              Append(@, [role |-> "assistant", content |-> <<"r">>])]
                      ELSE s3
                s5 == IF clear THEN reset_chat(s4) ELSE s4
            IN [session |-> s5,
                posted |-> IF IsNone(user_input) THEN posted ELSE Append(posted, post),
                page |-> "page"]

\* what get_available_agents() returns: the list, or [] when the request failed
AgentLists == {<<>>, AvailableAgents}

InitApp ==
    /\ session_state = NoSession
    /\ pc = "closed"
    /\ trace = <<>>
    /\ wf = NoWorkflow
    /\ fs = <<>>
    /\ dirs = {}
    /\ store = Idle
    /\ fs0 = fs
    /\ dirs0 = dirs
    /\ ncalls = 0
    /\ unreadable = {}
    /\ files = <<>>
    /\ idx = 0
    /\ content = <<>>
    /\ response = [kind |-> "none"]
    /\ status = <<>>
    /\ out = <<>>
    /\ tasks = <<>>
    /\ concurrency = 1
    /\ metrics = 0

besideApp == <<fs, dirs, store, fs0, dirs0, ncalls, unreadable, files, idx, content,
               response, status, out, tasks, concurrency, metrics, wf>>

\* the script run r has ended
AfterRun(r) ==
    /\ session_state' = r.session
    /\ trace' = r.posted
    /\ pc' = r.page
    /\ UNCHANGED besideApp

\* the browser opens the app: the first run of the script in a new session
PageLoad ==
    /\ pc = "closed"
    /\ \E agents \in AgentLists :
         AfterRun(main(session_state, agents, None, 200, FALSE, trace))

\* the script is run again with no widget touched
Rerun ==
    /\ pc \in {"stopped", "page"}
    /\ \E agents \in AgentLists :
         AfterRun(main(session_state, agents, None, 200, FALSE, trace))

\* the user picks another agent: the widget's value is stored, its callback
\* runs, and the script is run again
SelectAgent ==
    /\ pc = "page"
    /\ session_state.chat_id < MaxChats
    /\ \E k \in DOMAIN AvailableAgents, agents \in AgentLists :
         /\ Some(AvailableAgents[k]) # session_state.agent_selector
         /\ AfterRun(main(on_agent_change([session_state EXCEPT
                                              !.agent_selector = Some(AvailableAgents[k])]),
                          agents, None, 200, FALSE, trace))

\* the user submits a chat message: the script is run with chat_input set
SubmitChat ==
    /\ pc = "page"
    /\ Len(trace) < MaxPosts
    /\ \E agents \in AgentLists, status_code \in {200, 500} :
         AfterRun(main(session_state, agents, Some(<<"q">>), status_code, FALSE, trace))

\* the user presses Clear Chat: the script is run with the button set
ClearChat ==
    /\ pc = "page"
    /\ session_state.chat_id < MaxChats
    /\ \E agents \in AgentLists :
         AfterRun(main(session_state, agents, None, 200, TRUE, trace))

NextApp == PageLoad \/ Rerun \/ SelectAgent \/ SubmitChat \/ ClearChat

SpecApp == InitApp /\ [][NextApp]_vars

\* ------------------------------------------------------ claims on the chat app
\* C30: whenever a chat message is posted, the agent it is posted to is the one
\* the selector shows, never None, also for the first message of a new
\* session, and no chat id is ever sent to two different agents.
C30_PostsGoToSelectedAgent ==
    /\ \A k \in DOMAIN trace :
         /\ ~IsNone(trace[k].current_agent)
         /\ trace[k].current_agent = trace[k].agent_selector
    /\ \A j, k \in DOMAIN trace :
         trace[j].chat_id = trace[k].chat_id =>
             trace[j].current_agent = trace[k].current_agent

====
